---- MODULE Spec2Model ----
(***************************************************************************)
(* A model of the safe command-line client: the Vault transport            *)
(* (Vault.request), the secret primitives built on it (Read, List, Write,  *)
(* Delete), the tree builder (Tree, tree.Node.Paths), the bulk operations  *)
(* (DeleteTree, MoveCopyTree, Copy, Move) and the seal command.            *)
(*                                                                         *)
(* Strings are sequences of one-character strings, so that concatenation,  *)
(* slicing and strings.Replace are computed as the code computes them.     *)
(***************************************************************************)
EXTENDS Integers, Sequences, FiniteSets, TLC

VARIABLES
    store,    \* the backend's secrets: path -> (key -> JSON value)
    ghosts,   \* namespaces the backend still lists although they hold no key
    env,      \* the process environment: DEBUG, VAULT_HOSTNAME, VAULT_TOKEN
    phase,    \* "idle": no command has run in this process; "done": it returned
    cmd,      \* the command that ran, with its arguments and the backend it met
    res,      \* what the command returned and the requests it issued
    steps,    \* how many commands have run
    dns,      \* the name server's records: the vault service and its active node
    seal,     \* the seal command's position, local variables and seal calls
    members,  \* the cluster's members: host -> its seal status
    unseal    \* the unseal command's position, local variables and requests

vars == <<store, ghosts, env, phase, cmd, res, steps, dns, seal, members, unseal>>

----------------------------------------------------------------------------
(* Bounds of the model.                                                     *)

\* commands run one after the other against the same backend
MaxOps == 1
\* the redirects the backend answers before its final answer, in the
\* transport specification
MaxRedirects == 11
\* the redirects the backend answers to every request of a secret command
MaxHops == 1
\* the backend can refuse the n-th request of one method, n up to this
MaxFault == 4

----------------------------------------------------------------------------
(* Strings.                                                                 *)

\* the characters of the model, in byte order
Alphabet == <<"/", ":", "a", "b", "c", "e", "k", "s", "x", "y">>

Rank(c) == CHOOSE i \in 1..Len(Alphabet) : Alphabet[i] = c

RECURSIVE StrLess(_, _)
StrLess(a, b) ==
    IF a = <<>> THEN b # <<>>
    ELSE IF b = <<>> THEN FALSE
    ELSE IF Head(a) = Head(b) THEN StrLess(Tail(a), Tail(b))
    ELSE Rank(Head(a)) < Rank(Head(b))

\* strings.Index + 1: the position of the first occurrence of sub in s, 0 if none
IndexOf(s, sub) ==
    LET hits == {i \in 1..(Len(s) - Len(sub) + 1) : SubSeq(s, i, i + Len(sub) - 1) = sub}
    IN  IF hits = {} THEN 0 ELSE CHOOSE i \in hits : \A j \in hits : i <= j

\* strings.Replace(s, old, new, 1)
Replace1(s, old, new) ==
    LET i == IndexOf(s, old)
    IN  IF i = 0 THEN s
        ELSE SubSeq(s, 1, i - 1) \o new \o SubSeq(s, i + Len(old), Len(s))

HasPrefix(s, p) == Len(p) <= Len(s) /\ SubSeq(s, 1, Len(p)) = p

Slash == <<"/">>
Colon == <<":">>

\* ansi.Sprintf("@X{%s}", s): the text wrapped in the colour code X
Ansi(colour, s) == <<"@", colour, "{">> \o s \o <<"}">>

----------------------------------------------------------------------------
(* Errors and statuses.                                                     *)

NoErr == ""
NotFound == "NotFound"
ErrLoop == "redirection loop detected"
ErrNothing == "nothing to write"
ErrTransport == "transport failure"
ErrLocation == "unparsable Location"
ErrUnmarshal == "json: cannot unmarshal"
ErrPanic == "panic: nil pointer dereference"

\* fmt.Errorf("API %s", res.Status)
ApiErr(status) ==
    CASE status = 500 -> "API 500 Internal Server Error"
      [] status = 404 -> "API 404 Not Found"
      [] status = 204 -> "API 204 No Content"
      [] status = 200 -> "API 200 OK"
      [] OTHER        -> "API status"

----------------------------------------------------------------------------
(* The backend: a key-value store that lists the direct children of a path. *)

\* the names directly below p: "x" for a secret p/x, "x/" for a namespace
ChildNames(st, gh, p) ==
    LET below == {q \in DOMAIN st : HasPrefix(q, p \o Slash)}
                 \cup {g \o Slash : g \in {h \in gh : HasPrefix(h \o Slash, p \o Slash)}}
        rest(q) == SubSeq(q, Len(p) + 2, Len(q))
        name(q) == LET r == rest(q)
                       j == IndexOf(r, Slash)
                   IN  IF j = 0 THEN r ELSE SubSeq(r, 1, j)
    IN  {name(q) : q \in below} \ {<<>>}

\* the names of a set in byte order
RECURSIVE SortNames(_)
SortNames(S) ==
    IF S = {} THEN <<>>
    ELSE LET m == CHOOSE x \in S : \A y \in S \ {x} : StrLess(x, y)
         IN  <<m>> \o SortNames(S \ {m})

BackendKeys(st, gh, p) == SortNames(ChildNames(st, gh, p))

\* the status the backend answers a request with, redirects apart
BackendStatus(st, gh, m, p) ==
    CASE m = "GET"    -> IF p \in DOMAIN st THEN 200 ELSE 404
      [] m = "LIST"   -> IF ChildNames(st, gh, p) # {} \/ p \in gh THEN 200 ELSE 404
      [] m = "POST"   -> 204
      [] m = "DELETE" -> 204
      [] OTHER        -> 404

\* the store after the backend has served a request
BackendApply(st, m, p, body) ==
    CASE m = "POST" ->
           [q \in DOMAIN st \cup {p} |->
               IF q = p
               THEN IF body = <<>> THEN <<>>
                    ELSE [k \in DOMAIN body[1] |-> [t |-> "s", v |-> body[1][k]]]
               ELSE st[q]]
      [] m = "DELETE" -> [q \in DOMAIN st \ {p} |-> st[q]]
      [] OTHER -> st

----------------------------------------------------------------------------
(* The transport.                                                           *)

\* the number of attempts of the loop of Vault.request
MaxTries == 10

\* NewVault(url, token, skip_verify); Host is the environment's VAULT_HOSTNAME
NewVault(url, token, e) == [URL |-> url, Host |-> e.VAULT_HOSTNAME, Token |-> token]

\* Vault.url: the base URL followed by the formatted path
VaultUrl(v, path, query) ==
    [kind |-> "abs", host |-> v.URL, hop |-> 0, path |-> path, query |-> query]

\* http.NewRequest(method, url, body): a nil body leaves req.Body nil
NewRequest(method, url, hasBody, body) ==
    [method |-> method, url |-> url, header |-> <<>>,
     hasBody |-> hasBody, stream |-> IF hasBody THEN body ELSE <<>>]

\* strings.ToLower on the values DEBUG takes in the model
ToLower(x) ==
    CASE x = "OFF"   -> "off"
      [] x = "FALSE" -> "false"
      [] x = "NO"    -> "no"
      [] OTHER       -> x

\* shouldDebug(): DEBUG is set and is none of the words for "off"
shouldDebug(e) ==
    LET d == ToLower(e.DEBUG)
    IN  d # "" /\ d # "false" /\ d # "0" /\ d # "no" /\ d # "off"

\* the backend's answer to the n-th HTTP request of one call: plan.k
\* redirects, the last of them with a Location of kind plan.loc, then the
\* final answer (status 0: the connection fails and there is no response)
Answer(plan, n, url) ==
    IF n <= plan.k
    THEN [status |-> 307,
          loc |-> IF n = plan.k THEN plan.loc ELSE "abs",
          location |-> [url EXCEPT !.host = "standby", !.hop = n,
                                   !.kind = IF n = plan.k /\ plan.loc = "rel"
                                            THEN "rel" ELSE "abs"]]
    ELSE [status |-> plan.final, loc |-> "none", location |-> url]

\* the result of Vault.request
Result(status, err, sent) == [status |-> status, err |-> err, sent |-> sent]

\* a loop that leaves the body as the first attempt consumed it
RECURSIVE requestLoopBodyOnce(_, _, _, _, _, _)
requestLoopBodyOnce(i, req, body, sent, plan, e) ==
    IF i >= MaxTries THEN Result(0, ErrLoop, sent)
    ELSE
      LET r1    == IF req.hasBody /\ i = 0 THEN [req EXCEPT !.stream = body] ELSE req
          goes  == r1.url.kind = "abs"
          sent1 == IF goes
                   THEN Append(sent, [method |-> r1.method, url |-> r1.url,
                                      header |-> r1.header, body |-> r1.stream])
                   ELSE sent
          ans   == IF goes THEN Answer(plan, Len(sent1), r1.url)
                   ELSE [status |-> 0, loc |-> "none", location |-> r1.url]
      IN  IF ans.status = 0
          THEN IF shouldDebug(e) THEN Result(0, ErrPanic, sent1)
               ELSE Result(0, ErrTransport, sent1)
          ELSE IF ans.status = 307
          THEN IF ans.loc = "bad" THEN Result(0, ErrLocation, sent1)
               ELSE requestLoopBodyOnce(i + 1,
                                [r1 EXCEPT !.url = ans.location, !.stream = <<>>],
                                body, sent1, plan, e)
          ELSE Result(ans.status, NoErr, sent1)

\* the loop of Vault.request from attempt i on: body is the buffered body,
\* sent the HTTP requests that went out so far
RECURSIVE requestLoop(_, _, _, _, _, _)
requestLoop(i, req, body, sent, plan, e) ==
    IF i >= MaxTries THEN Result(0, ErrLoop, sent)
    ELSE
      LET r1    == IF req.hasBody THEN [req EXCEPT !.stream = body] ELSE req
          goes  == r1.url.kind = "abs"
          sent1 == IF goes
                   THEN Append(sent, [method |-> r1.method, url |-> r1.url,
                                      header |-> r1.header, body |-> r1.stream])
                   ELSE sent
          ans   == IF goes THEN Answer(plan, Len(sent1), r1.url)
                   ELSE [status |-> 0, loc |-> "none", location |-> r1.url]
      IN  IF ans.status = 0
          THEN \* httputil.DumpResponse(nil, true) dereferences the nil response
               IF shouldDebug(e) THEN Result(0, ErrPanic, sent1)
               ELSE Result(0, ErrTransport, sent1)
          ELSE IF ans.status = 307
          THEN IF ans.loc = "bad" THEN Result(0, ErrLocation, sent1)
               ELSE requestLoop(i + 1,
                                [r1 EXCEPT !.url = ans.location, !.stream = <<>>],
                                body, sent1, plan, e)
          ELSE Result(ans.status, NoErr, sent1)

\* a request whose loop gives up one attempt early
requestOneShort(v, req, plan, e) ==
    LET body == req.stream
        h1   == IF v.Host # "" THEN Append(req.header, <<"Host", v.Host>>)
                ELSE req.header
        h2   == IF v.Token # "" THEN Append(h1, <<"X-Vault-Token", v.Token>>)
                ELSE h1
    IN  requestLoop(1, [req EXCEPT !.header = h2, !.stream = <<>>], body, <<>>, plan, e)

\* Vault.request: buffer the body, add the headers, then loop
request(v, req, plan, e) ==
    LET body == req.stream
        h1   == IF v.Host # "" THEN Append(req.header, <<"Host", v.Host>>)
                ELSE req.header
        h2   == IF v.Token # "" THEN Append(h1, <<"X-Vault-Token", v.Token>>)
                ELSE h1
    IN  requestLoop(0, [req EXCEPT !.header = h2, !.stream = <<>>], body, <<>>, plan, e)

----------------------------------------------------------------------------
(* The secret primitives.  A world w is what one command works against:    *)
(* the backend (store, ghosts), the Vault object v, the environment, the   *)
(* redirects (hops) and the refusal (fault) the backend has in stock, and  *)
(* the log of the calls issued so far.                                      *)

NoFault == [m |-> "none", n |-> 0, status |-> 500]

World(st, gh, v, e, hops, fault) ==
    [store |-> st, ghosts |-> gh, v |-> v, env |-> e, hops |-> hops,
     fault |-> fault, log |-> <<>>, ops |-> <<>>]

\* how many calls of kind m the log holds
CountOf(log, m) == Cardinality({i \in 1..Len(log) : log[i].m = m})

\* one call of kind m ("GET", "LIST", "POST", "DELETE") on path through
\* Vault.request: the backend refuses it with a 500 when it is the call the
\* fault names, and serves it when the final answer is reached
Call(w, m, path, hasBody, body) ==
    LET refused == w.fault.m = m /\ w.fault.n = CountOf(w.log, m) + 1
        after(r, served) ==
            [w |-> [w EXCEPT !.store = IF served
                                       THEN BackendApply(w.store, m, path, body)
                                       ELSE w.store,
                             !.log = Append(w.log, [m |-> m, p |-> path, body |-> body,
                                                     sent |-> Len(r.sent),
                                                     served |-> served,
                                                     refused |-> refused])],
             r |-> r]
        done(r) == after(r, r.err = NoErr /\ r.status \in {200, 204})
    IN  done(request(w.v,
                     NewRequest(IF m = "LIST" THEN "GET" ELSE m,
                                VaultUrl(w.v, path, IF m = "LIST" THEN "list=1" ELSE ""),
                                hasBody, body),
                     [k |-> w.hops,
                      final |-> IF refused THEN w.fault.status
                                ELSE BackendStatus(w.store, w.ghosts, m, path),
                      loc |-> "abs"],
                     w.env))

\* NewSecret(): a secret with no key
NewSecret == <<>>

\* Secret.JSON(): the JSON text of the secret; the empty text for no key.
\* The text is modelled as the sequence of the objects it encodes.
JSON(s) == IF DOMAIN s = {} THEN <<>> ELSE <<s>>

\* json.Marshal of a non-string value, and the string itself otherwise
AsString(val) == val.v

KeysName == <<"k", "e", "y", "s">>

\* Vault.Read
Read(w, fullpath) ==
    LET i    == IndexOf(fullpath, Colon)
        path == IF i > 0 THEN SubSeq(fullpath, 1, i - 1) ELSE fullpath
        key  == IF i > 0 THEN SubSeq(fullpath, i + 1, Len(fullpath)) ELSE <<>>
        decode(data) ==
            [k \in {x \in DOMAIN data : key = <<>> \/ x = key} |-> AsString(data[k])]
        after(c) ==
            IF c.r.err # NoErr THEN [w |-> c.w, secret |-> NewSecret, err |-> c.r.err]
            ELSE IF c.r.status = 200
            THEN [w |-> c.w, secret |-> decode(w.store[path]), err |-> NoErr]
            ELSE IF c.r.status = 404
            THEN [w |-> c.w, secret |-> NewSecret, err |-> NotFound]
            ELSE [w |-> c.w, secret |-> NewSecret, err |-> ApiErr(c.r.status)]
    IN  after(Call(w, "GET", path, FALSE, <<>>))

\* the decoding of a response body into struct{ Data struct{ Keys []string } }:
\* a secret with a key "keys" holds there a value that is no list of strings
ListBody(w, path, viaRead) ==
    IF viaRead
    THEN IF KeysName \in DOMAIN w.store[path]
         THEN [w |-> w, paths |-> <<>>, err |-> ErrUnmarshal]
         ELSE [w |-> w, paths |-> <<>>, err |-> NoErr]
    ELSE [w |-> w, paths |-> BackendKeys(w.store, w.ghosts, path), err |-> NoErr]

\* Vault.List
List(w, path) ==
    LET fallback(d) ==
            IF d.r.err # NoErr THEN [w |-> d.w, paths |-> <<>>, err |-> d.r.err]
            ELSE IF d.r.status = 200 THEN ListBody(d.w, path, TRUE)
            ELSE IF d.r.status = 404
            THEN [w |-> d.w, paths |-> <<>>, err |-> NotFound]
            ELSE [w |-> d.w, paths |-> <<>>, err |-> ApiErr(d.r.status)]
        after(c) ==
            IF c.r.err # NoErr THEN [w |-> c.w, paths |-> <<>>, err |-> c.r.err]
            ELSE IF c.r.status = 200 THEN ListBody(c.w, path, FALSE)
            ELSE IF c.r.status = 404
            THEN fallback(Call(c.w, "GET", path, FALSE, <<>>))
            ELSE [w |-> c.w, paths |-> <<>>, err |-> ApiErr(c.r.status)]
    IN  after(Call(w, "LIST", path, FALSE, <<>>))

\* the end of Vault.Write and of Vault.Delete: 200 and 204 are success
Checked(c) ==
    IF c.r.err # NoErr THEN [w |-> c.w, err |-> c.r.err]
    ELSE IF c.r.status \in {200, 204} THEN [w |-> c.w, err |-> NoErr]
    ELSE [w |-> c.w, err |-> ApiErr(c.r.status)]

\* a Write that sends whatever the secret renders to
WriteUnchecked(w, path, s) == Checked(Call(w, "POST", path, TRUE, JSON(s)))

\* Vault.Write
Write(w, path, s) ==
    IF JSON(s) = <<>> THEN [w |-> w, err |-> ErrNothing]
    ELSE Checked(Call(w, "POST", path, TRUE, JSON(s)))

\* Vault.Delete
Delete(w, path) == Checked(Call(w, "DELETE", path, FALSE, <<>>))

----------------------------------------------------------------------------
(* The tree builder.                                                        *)

\* tree.New(name)
NewNode(name) == [Name |-> name, Sub |-> <<>>]

\* a Tree that attaches every listed name
AlwaysAppend(isDir, kid) == TRUE

\* lines 272-284 of Vault.Tree: a namespace is attached when its subtree has
\* a child, a leaf always
ShouldAppend(isDir, kid) == IF isDir THEN Len(kid.Sub) > 0 ELSE TRUE

\* a build that passes over a namespace whose listing failed
RECURSIVE TreeFromSkipsFailed(_, _, _, _, _, _)
TreeFromSkipsFailed(w, path, ansify, listed, l, t) ==
    LET p     == Head(l)
        isDir == p[Len(p)] = "/"
        base  == SubSeq(p, 1, Len(p) - 1)
        below == path \o Slash \o base
        name  == IF isDir
                 THEN IF ansify THEN Ansi("B", p) ELSE base
                 ELSE IF ansify THEN Ansi("G", p) ELSE p
        listing(r) ==
            IF r.err # NoErr THEN [w |-> r.w, t |-> t, err |-> r.err]
            ELSE TreeFromSkipsFailed(r.w, path, ansify, TRUE, r.paths, t)
        visited(sub) ==
            IF sub.err # NoErr THEN TreeFromSkipsFailed(sub.w, path, ansify, TRUE, Tail(l), t)
            ELSE TreeFromSkipsFailed(sub.w, path, ansify, TRUE, Tail(l),
                          IF ShouldAppend(isDir, sub.t)
                          THEN [t EXCEPT !.Sub = Append(@, [sub.t EXCEPT !.Name = name])]
                          ELSE t)
    IN  IF ~listed THEN listing(List(w, path))
        ELSE IF l = <<>> THEN [w |-> w, t |-> t, err |-> NoErr]
        ELSE visited(IF isDir
                     THEN TreeFromSkipsFailed(w, below, ansify, FALSE, <<>>,
                                   NewNode(IF ansify THEN Ansi("C", below) ELSE below))
                     ELSE [w |-> w, t |-> NewNode(p), err |-> NoErr])

\* Vault.Tree from the listing on.  Before the listing (listed = FALSE) it
\* lists path and goes on with the names; after it, it is the loop over the
\* names l still to visit, t being the tree so far.
RECURSIVE TreeFrom(_, _, _, _, _, _)
TreeFrom(w, path, ansify, listed, l, t) ==
    LET p     == Head(l)
        isDir == p[Len(p)] = "/"
        base  == SubSeq(p, 1, Len(p) - 1)
        below == path \o Slash \o base
        name  == IF isDir
                 THEN IF ansify THEN Ansi("B", p) ELSE base
                 ELSE IF ansify THEN Ansi("G", p) ELSE p
        listing(r) ==
            IF r.err # NoErr THEN [w |-> r.w, t |-> t, err |-> r.err]
            ELSE TreeFrom(r.w, path, ansify, TRUE, r.paths, t)
        visited(sub) ==
            IF sub.err # NoErr THEN [w |-> sub.w, t |-> t, err |-> sub.err]
            ELSE TreeFrom(sub.w, path, ansify, TRUE, Tail(l),
                          IF ShouldAppend(isDir, sub.t)
                          THEN [t EXCEPT !.Sub = Append(@, [sub.t EXCEPT !.Name = name])]
                          ELSE t)
    IN  IF ~listed THEN listing(List(w, path))
        ELSE IF l = <<>> THEN [w |-> w, t |-> t, err |-> NoErr]
        ELSE visited(IF isDir
                     THEN TreeFrom(w, below, ansify, FALSE, <<>>,
                                   NewNode(IF ansify THEN Ansi("C", below) ELSE below))
                     ELSE [w |-> w, t |-> NewNode(p), err |-> NoErr])

\* Vault.Tree
Tree(w, path, ansify) ==
    TreeFrom(w, path, ansify, FALSE, <<>>,
             NewNode(IF ansify THEN Ansi("C", path) ELSE path))

\* the concatenation of a sequence of sequences
RECURSIVE Flatten(_)
Flatten(ss) == IF ss = <<>> THEN <<>> ELSE Head(ss) \o Flatten(Tail(ss))

\* tree.Node.Paths(sep): the name of a node without children, and for any
\* other node the paths of its children in order, each behind the node's
\* name and the separator
RECURSIVE Paths(_, _)
Paths(n, sep) ==
    LET behind(ps) == [j \in 1..Len(ps) |-> n.Name \o sep \o ps[j]]
    IN  IF n.Sub = <<>> THEN <<n.Name>>
        ELSE Flatten([i \in 1..Len(n.Sub) |-> behind(Paths(n.Sub[i], sep))])

----------------------------------------------------------------------------
(* The bulk operations.                                                     *)

\* Vault.Copy
Copy(w, oldpath, newpath) ==
    LET after(r) == IF r.err # NoErr THEN [w |-> r.w, err |-> r.err]
                    ELSE Write(r.w, newpath, r.secret)
    IN  after(Read(w, oldpath))

\* a Move that removes the copy again when the delete fails
MoveRollsBack(w, oldpath, newpath) ==
    LET undone(d, u) == [w |-> u.w, err |-> d.err]
        deleted(d) == IF d.err # NoErr THEN undone(d, Delete(d.w, newpath)) ELSE d
        after(c) == IF c.err # NoErr THEN c ELSE deleted(Delete(c.w, oldpath))
    IN  after(Copy(w, oldpath, newpath))

\* Vault.Move
Move(w, oldpath, newpath) ==
    LET after(c) == IF c.err # NoErr THEN c ELSE Delete(c.w, oldpath)
    IN  after(Copy(w, oldpath, newpath))

\* a delete loop that goes on after a failed delete and reports it at the end
RECURSIVE DeleteLoopGoesOn(_, _)
DeleteLoopGoesOn(w, paths) ==
    LET rest(d, r) == IF d.err # NoErr THEN [w |-> r.w, err |-> d.err] ELSE r
        after(d) == rest(d, DeleteLoopGoesOn(d.w, Tail(paths)))
    IN  IF paths = <<>> THEN [w |-> w, err |-> NoErr]
        ELSE after(Delete(w, Head(paths)))

\* the loop of Vault.DeleteTree over the paths of the tree
RECURSIVE DeleteLoop(_, _)
DeleteLoop(w, paths) ==
    LET after(d) == IF d.err # NoErr THEN d ELSE DeleteLoop(d.w, Tail(paths))
    IN  IF paths = <<>> THEN [w |-> w, err |-> NoErr]
        ELSE after(Delete(w, Head(paths)))

\* a DeleteTree that leaves the root alone
DeleteTreeLeavesOnly(w, root) ==
    LET after(t) == IF t.err # NoErr THEN [w |-> t.w, err |-> t.err]
                    ELSE DeleteLoop(t.w, Paths(t.t, Slash))
    IN  after(Tree(w, root, FALSE))

\* Vault.DeleteTree
DeleteTree(w, root) ==
    LET last(d)  == IF d.err # NoErr THEN d ELSE Delete(d.w, root)
        after(t) == IF t.err # NoErr THEN [w |-> t.w, err |-> t.err]
                    ELSE last(DeleteLoop(t.w, Paths(t.t, Slash)))
    IN  after(Tree(w, root, FALSE))

\* the call f(oldpath, newpath) of MoveCopyTree, f being v.Move or v.Copy;
\* the invocation and what it returned are noted in ops
Invoke(f, w, oldpath, newpath) ==
    LET noted(r) ==
            [w |-> [r.w EXCEPT !.ops = Append(@, [src |-> oldpath, dst |-> newpath,
                                                   err |-> r.err])],
             err |-> r.err]
    IN  noted(IF f = "Move" THEN Move(w, oldpath, newpath)
              ELSE Copy(w, oldpath, newpath))

\* a move/copy loop that goes on after a failed call and reports it at the end
RECURSIVE MoveCopyLoopGoesOn(_, _, _, _, _)
MoveCopyLoopGoesOn(w, paths, oldRoot, newRoot, f) ==
    LET rest(r, n) == IF r.err # NoErr THEN [w |-> n.w, err |-> r.err] ELSE n
        after(r) == rest(r, MoveCopyLoopGoesOn(r.w, Tail(paths), oldRoot, newRoot, f))
    IN  IF paths = <<>> THEN [w |-> w, err |-> NoErr]
        ELSE after(Invoke(f, w, Head(paths), Replace1(Head(paths), oldRoot, newRoot)))

\* the loop of Vault.MoveCopyTree over the paths of the tree
RECURSIVE MoveCopyLoop(_, _, _, _, _)
MoveCopyLoop(w, paths, oldRoot, newRoot, f) ==
    LET after(r) == IF r.err # NoErr THEN r
                    ELSE MoveCopyLoop(r.w, Tail(paths), oldRoot, newRoot, f)
    IN  IF paths = <<>> THEN [w |-> w, err |-> NoErr]
        ELSE after(Invoke(f, w, Head(paths), Replace1(Head(paths), oldRoot, newRoot)))

\* a MoveCopyTree that handles the root only when its read succeeded
MoveCopyTreeOnSuccess(w, oldRoot, newRoot, f) ==
    LET root(r)  == IF r.err = NoErr
                    THEN Invoke(f, r.w, oldRoot, newRoot) @@ [rootRead |-> r.err]
                    ELSE [w |-> r.w, err |-> NoErr, rootRead |-> r.err]
        loop(l)  == IF l.err # NoErr
                    THEN [w |-> l.w, err |-> l.err, rootRead |-> "skipped"]
                    ELSE root(Read(l.w, oldRoot))
        after(t) == IF t.err # NoErr
                    THEN [w |-> t.w, err |-> t.err, rootRead |-> "skipped"]
                    ELSE loop(MoveCopyLoop(t.w, Paths(t.t, Slash), oldRoot, newRoot, f))
    IN  after(Tree(w, oldRoot, FALSE))

\* Vault.MoveCopyTree; rootRead is what the read of oldRoot returned, or
\* "skipped" when the function returned before it
MoveCopyTree(w, oldRoot, newRoot, f) ==
    LET root(r)  == IF r.err # NotFound
                    THEN Invoke(f, r.w, oldRoot, newRoot) @@ [rootRead |-> r.err]
                    ELSE [w |-> r.w, err |-> NoErr, rootRead |-> r.err]
        loop(l)  == IF l.err # NoErr
                    THEN [w |-> l.w, err |-> l.err, rootRead |-> "skipped"]
                    ELSE root(Read(l.w, oldRoot))
        after(t) == IF t.err # NoErr
                    THEN [w |-> t.w, err |-> t.err, rootRead |-> "skipped"]
                    ELSE loop(MoveCopyLoop(t.w, Paths(t.t, Slash), oldRoot, newRoot, f))
    IN  after(Tree(w, oldRoot, FALSE))

----------------------------------------------------------------------------
(* The backends and the arguments the commands are run with.                *)

pS   == <<"s">>
pSA  == <<"s", "/", "a">>
pSB  == <<"s", "/", "b">>
pSBC == <<"s", "/", "b", "/", "c">>
pSE  == <<"s", "/", "e">>
pSEE == <<"s", "/", "e", "/", "e">>
pX   == <<"x">>
pY   == <<"y">>
kK   == <<"k">>

Str(x) == [t |-> "s", v |-> x]
Num(x) == [t |-> "n", v |-> x]

\* the backend of the specification's example: s/a and s/b/c
Backend1 ==
    [store  |-> (pSA :> (kK :> Str("1"))) @@ (pSBC :> (kK :> Str("2"))),
     ghosts |-> {}]

\* s/b is a secret and a namespace, s/e is listed but empty, x holds a key
\* "keys", s/b/c holds a number
Backend2 ==
    [store  |-> (pSA :> (kK :> Str("1"))) @@ (pSB :> (kK :> Str("3")))
                @@ (pSBC :> (kK :> Num("7"))) @@ (pX :> (KeysName :> Str("1"))),
     ghosts |-> {pSE}]

\* s holds nothing but an empty namespace within an empty namespace
Backend3 ==
    [store  |-> (pX :> (kK :> Str("1"))),
     ghosts |-> {pSEE}]

Backends == {Backend2, Backend3}

PathArgs == {pS, pSB, pSE, pX, pY}

SecretArgs == {NewSecret, (kK :> "9")}

Methods == {"GET", "LIST", "POST", "DELETE"}

Faults == {NoFault} \cup [m : Methods, n : 1..MaxFault, status : {500}]

\* behind redirects the backend refuses the first call of a method or none
FaultsAt(hops) ==
    IF hops = 0 THEN Faults ELSE {NoFault} \cup [m : Methods, n : {1}, status : {500}]

----------------------------------------------------------------------------
(* The commands.  Each runs one process from start to exit.                 *)

NoCmd == [op |-> "none"]
NoRes == [err |-> NoErr]

\* the command with its arguments and the backend it starts from
Cmd(op, a, b, f, ansify, s, hops, fault) ==
    [op |-> op, a |-> a, b |-> b, f |-> f, ansify |-> ansify, secret |-> s,
     hops |-> hops, fault |-> fault, store |-> store, ghosts |-> ghosts]

Res(w, err, t, paths, secret, rootRead) ==
    [err |-> err, log |-> w.log, ops |-> w.ops, tree |-> t, paths |-> paths,
     secret |-> secret, rootRead |-> rootRead]

\* connect(): the Vault at VAULT_ADDR with the token VAULT_TOKEN
connect == NewVault(env.VAULT_ADDR, env.VAULT_TOKEN, env)

\* the world a command starts in
Start(hops, fault) == World(store, ghosts, connect, env, hops, fault)

\* the backend refuses only a call that the command issues
Hit(w, fault) == fault = NoFault \/ \E i \in 1..Len(w.log) : w.log[i].refused

CanRun == phase = "idle" /\ steps < MaxOps

Finish(c, w, r) ==
    /\ store' = w.store
    /\ cmd' = c
    /\ res' = r
    /\ phase' = "done"
    /\ steps' = steps + 1
    /\ UNCHANGED <<ghosts, env, dns, seal, members, unseal>>

\* the tree command (ansify) and the paths command (not ansify) on one path
DoTree(path, ansify, hops, fault) ==
    LET ran(t) ==
          /\ Hit(t.w, fault)
          /\ Finish(Cmd("Tree", path, <<>>, "", ansify, NewSecret, hops, fault), t.w,
                    Res(t.w, t.err, t.t,
                        IF t.err = NoErr /\ ~ansify THEN Paths(t.t, Slash) ELSE <<>>,
                        NewSecret, "skipped"))
    IN  CanRun /\ ran(Tree(Start(hops, fault), path, ansify))

\* the import command's write of one secret
DoWrite(path, s, hops, fault) ==
    LET ran(r) ==
          /\ Hit(r.w, fault)
          /\ Finish(Cmd("Write", path, <<>>, "", FALSE, s, hops, fault), r.w,
                    Res(r.w, r.err, NewNode(<<>>), <<>>, NewSecret, "skipped"))
    IN  CanRun /\ ran(Write(Start(hops, fault), path, s))

\* the delete command, with and without -R
DoDelete(path, recurse, hops, fault) ==
    LET ran(r) ==
          /\ Hit(r.w, fault)
          /\ Finish(Cmd(IF recurse THEN "DeleteTree" ELSE "Delete", path, <<>>, "",
                        FALSE, NewSecret, hops, fault), r.w,
                    Res(r.w, r.err, NewNode(<<>>), <<>>, NewSecret, "skipped"))
    IN  CanRun /\ ran(IF recurse THEN DeleteTree(Start(hops, fault), path)
                      ELSE Delete(Start(hops, fault), path))

\* the move and copy commands without -R
DoMoveCopy(f, old, new, hops, fault) ==
    LET ran(r) ==
          /\ Hit(r.w, fault)
          /\ Finish(Cmd(f, old, new, f, FALSE, NewSecret, hops, fault), r.w,
                    Res(r.w, r.err, NewNode(<<>>), <<>>, NewSecret, "skipped"))
    IN  CanRun /\ ran(IF f = "Move" THEN Move(Start(hops, fault), old, new)
                      ELSE Copy(Start(hops, fault), old, new))

\* the move and copy commands with -R
DoMoveCopyTree(f, old, new, hops, fault) ==
    LET ran(r) ==
          /\ Hit(r.w, fault)
          /\ Finish(Cmd("MoveCopyTree", old, new, f, FALSE, NewSecret, hops, fault), r.w,
                    Res(r.w, r.err, NewNode(<<>>), <<>>, NewSecret, r.rootRead))
    IN  CanRun /\ ran(MoveCopyTree(Start(hops, fault), old, new, f))

\* the process exits; the next command starts afresh
Exit ==
    /\ phase = "done"
    /\ phase' = "idle"
    /\ cmd' = NoCmd
    /\ res' = NoRes
    /\ UNCHANGED <<store, ghosts, env, steps, dns, seal, members, unseal>>

NoDns == [records |-> {}]
NoSeal == [pc |-> "none"]
NoMembers == <<>>
NoUnseal == [pc |-> "none"]

Init ==
    /\ \E b \in Backends : store = b.store /\ ghosts = b.ghosts
    /\ env = [DEBUG |-> "", VAULT_HOSTNAME |-> "", VAULT_TOKEN |-> "token",
              VAULT_ADDR |-> "vault"]
    /\ phase = "idle"
    /\ cmd = NoCmd
    /\ res = NoRes
    /\ steps = 0
    /\ dns = NoDns
    /\ seal = NoSeal
    /\ members = NoMembers
    /\ unseal = NoUnseal

Next ==
    \/ \E path \in PathArgs, ansify \in BOOLEAN, hops \in 0..MaxHops : \E fault \in FaultsAt(hops) :
           DoTree(path, ansify, hops, fault)
    \/ \E path \in PathArgs, s \in SecretArgs, hops \in 0..MaxHops : \E fault \in FaultsAt(hops) :
           DoWrite(path, s, hops, fault)
    \/ \E path \in PathArgs, recurse \in BOOLEAN, hops \in 0..MaxHops : \E fault \in FaultsAt(hops) :
           DoDelete(path, recurse, hops, fault)
    \/ \E f \in {"Move", "Copy"}, old \in PathArgs, new \in PathArgs,
          hops \in 0..MaxHops : \E fault \in FaultsAt(hops) :
           DoMoveCopy(f, old, new, hops, fault)
    \/ \E f \in {"Move", "Copy"}, old \in PathArgs, new \in PathArgs,
          hops \in 0..MaxHops : \E fault \in FaultsAt(hops) :
           DoMoveCopyTree(f, old, new, hops, fault)
    \/ Exit

Spec == Init /\ [][Next]_vars

----------------------------------------------------------------------------
(* Properties of the bulk operations, checked under Spec.                   *)

Done(op) == phase = "done" /\ cmd.op = op

\* the world the command started in
PreWorld == World(cmd.store, cmd.ghosts, connect, env, cmd.hops, cmd.fault)

\* the path sequence of the tree the command built at its first argument
TreePaths == Paths(Tree(PreWorld, cmd.a, FALSE).t, Slash)

\* the calls of one kind in the log, in order
CallsOf(log, m) == SelectSeq(log, LAMBDA c : c.m = m)

PathsIn(calls) == [i \in 1..Len(calls) |-> calls[i].p]

\* what a read of p returns from store st
Content(st, p) == [k \in DOMAIN st[p] |-> AsString(st[p][k])]

\* the pairs MoveCopyTree owes for the leaf paths ps
Owed(ps, oldRoot, newRoot) ==
    [i \in 1..Len(ps) |-> <<ps[i], Replace1(ps[i], oldRoot, newRoot)>>]

Pairs(ops) == [i \in 1..Len(ops) |-> <<ops[i].src, ops[i].dst>>]

\* C2: a MoveCopyTree that returns no error has invoked op once for every
\* path of the tree built at oldRoot, in the tree's order, with the first
\* occurrence of oldRoot replaced by newRoot in the destination, and after
\* them op(oldRoot, newRoot) exactly when the read of oldRoot did not return
\* NotFound.
C2_MoveCopyTreeCalls ==
    (Done("MoveCopyTree") /\ res.err = NoErr) =>
        /\ res.rootRead # "skipped"
        /\ Pairs(res.ops) =
             Owed(TreePaths, cmd.a, cmd.b)
             \o (IF res.rootRead # NotFound THEN <<<<cmd.a, cmd.b>>>> ELSE <<>>)
        /\ \A i \in 1..Len(res.ops) : res.ops[i].err = NoErr

\* a recursive copy of a namespace that is a secret too, with the read of
\* the root refused by the backend
C2_Witness ==
    /\ Done("MoveCopyTree") /\ res.err = NoErr
    /\ Len(TreePaths) >= 1
    /\ TreePaths[1] # cmd.a
    /\ res.rootRead \notin {NotFound, NoErr, "skipped"}
    /\ Len(res.ops) = Len(TreePaths) + 1

\* C3: a DeleteTree that returns no error has issued one DELETE per path of
\* the tree, in the tree's order, and then one DELETE of the root: the
\* number of paths plus one in all.
C3_DeleteTreeCalls ==
    (Done("DeleteTree") /\ res.err = NoErr) =>
        /\ PathsIn(CallsOf(res.log, "DELETE")) = TreePaths \o <<cmd.a>>
        /\ Len(CallsOf(res.log, "DELETE")) = Len(TreePaths) + 1
        /\ res.log[Len(res.log)].m = "DELETE" /\ res.log[Len(res.log)].p = cmd.a

\* a recursive delete of a tree of three leaves, through a redirect
C3_Witness ==
    /\ Done("DeleteTree") /\ res.err = NoErr
    /\ Len(TreePaths) = 3
    /\ cmd.hops = 1
    /\ Len(CallsOf(res.log, "DELETE")) = 4

\* the DELETE calls of the log, and whether one of them failed
Deletes == CallsOf(res.log, "DELETE")
FailedDelete == \E i \in 1..Len(Deletes) : ~Deletes[i].served

\* C4: when a delete of DeleteTree fails, it is the last call of the
\* operation and its error is returned; the deletes issued are a prefix of
\* the tree's paths followed by root, and the backend holds what it held
\* before less the paths deleted until then.
C4_DeleteTreeAbort ==
    (Done("DeleteTree") /\ FailedDelete) =>
        LET n == Len(Deletes)
            owed == TreePaths \o <<cmd.a>>
            gone == {Deletes[i].p : i \in 1..(n - 1)}
        IN  /\ \A i \in 1..(n - 1) : Deletes[i].served
            /\ ~res.log[Len(res.log)].served /\ res.log[Len(res.log)].m = "DELETE"
            /\ res.err = ApiErr(500)
            /\ n <= Len(owed) /\ PathsIn(Deletes) = SubSeq(owed, 1, n)
            /\ store = [q \in DOMAIN cmd.store \ gone |-> cmd.store[q]]

\* the second delete fails, with a leaf deleted before it and leaves left
C4_Witness ==
    /\ Done("DeleteTree") /\ FailedDelete
    /\ Len(Deletes) = 2
    /\ Len(TreePaths) = 3
    /\ Deletes[1].p \notin DOMAIN store
    /\ Deletes[2].p \in DOMAIN store

\* the invocations of op that returned an error
FailedOps == {i \in 1..Len(res.ops) : res.ops[i].err # NoErr}

\* the calls one successful invocation of f issues
CallsFor(f, op) ==
    <<[m |-> "GET", p |-> op.src], [m |-> "POST", p |-> op.dst]>>
    \o (IF f = "Move" THEN <<[m |-> "DELETE", p |-> op.src]>> ELSE <<>>)

\* how many calls the building of the tree took
TreeCalls == Len(Tree(PreWorld, cmd.a, FALSE).w.log)

\* the calls issued after the tree was built, as method and path
Issued ==
    [i \in 1..(Len(res.log) - TreeCalls) |->
        [m |-> res.log[TreeCalls + i].m, p |-> res.log[TreeCalls + i].p]]

\* C5: when op fails on a leaf of MoveCopyTree, that invocation is the last
\* and its error is returned; the read of oldRoot and op(oldRoot, newRoot)
\* are not performed; the calls issued are those of the earlier invocations,
\* all served, and then those of the failing one up to the call that
\* failed; and the destination of every earlier invocation holds the
\* content its source had, unless a move has deleted that path since.
C5_MoveCopyTreeAbort ==
    (Done("MoveCopyTree") /\ \E i \in FailedOps : i <= Len(TreePaths)) =>
        LET n == Len(res.ops)
            earlier == Flatten([i \in 1..(n - 1) |-> CallsFor(cmd.f, res.ops[i])])
            failing == CallsFor(cmd.f, res.ops[n])
            k == Len(Issued) - Len(earlier)
        IN  /\ FailedOps = {n}
            /\ res.err = res.ops[n].err
            /\ res.rootRead = "skipped"
            /\ Pairs(res.ops) = SubSeq(Owed(TreePaths, cmd.a, cmd.b), 1, n)
            /\ k \in 1..Len(failing)
            /\ Issued = earlier \o SubSeq(failing, 1, k)
            /\ \A i \in (TreeCalls + 1)..Len(res.log) :
                   res.log[i].served <=> i < Len(res.log)
            /\ \A i \in 1..(n - 1) :
                   (cmd.f = "Move" => \A j \in 1..n : res.ops[j].src # res.ops[i].dst)
                   => /\ res.ops[i].dst \in DOMAIN store
                      /\ Content(store, res.ops[i].dst) = Content(cmd.store, res.ops[i].src)

\* the second of three leaf moves fails, the first having gone through
C5_Witness ==
    /\ Done("MoveCopyTree") /\ cmd.f = "Move"
    /\ Len(TreePaths) = 3
    /\ Len(res.ops) = 2
    /\ FailedOps = {2}
    /\ res.ops[1].dst \in DOMAIN store
    /\ res.ops[1].src \notin DOMAIN store

\* C6: a Move whose copy went through and whose delete failed returns the
\* delete's error and leaves the secret readable, with the content it had,
\* at old and at new.
C6_MoveNotAtomic ==
    (/\ Done("Move")
     /\ Len(res.log) >= 3
     /\ res.log[2].m = "POST" /\ res.log[2].served
     /\ res.log[3].m = "DELETE" /\ ~res.log[3].served) =>
        /\ res.err = ApiErr(500)
        /\ Len(res.log) = 3
        /\ cmd.a \in DOMAIN store /\ cmd.b \in DOMAIN store
        /\ Content(store, cmd.a) = Content(cmd.store, cmd.a)
        /\ Content(store, cmd.b) = Content(cmd.store, cmd.a)

\* a move between two different paths whose delete the backend refused
C6_Witness ==
    /\ Done("Move")
    /\ cmd.a # cmd.b
    /\ cmd.b \notin DOMAIN cmd.store
    /\ Len(res.log) = 3 /\ res.log[2].served /\ ~res.log[3].served
    /\ res.err # NoErr

\* C7: a Write of a secret without keys returns "nothing to write" and
\* issues no request.
C7_NothingToWrite ==
    (Done("Write") /\ DOMAIN cmd.secret = {}) =>
        /\ res.err = ErrNothing
        /\ res.log = <<>>
        /\ store = cmd.store

\* a write of the empty secret has run
C7_Witness ==
    /\ Done("Write") /\ DOMAIN cmd.secret = {}
    /\ res.err = ErrNothing

----------------------------------------------------------------------------
(* Properties of the tree builder, checked under Spec.                      *)

IsDirName(n) == n[Len(n)] = "/"

\* the colour and the text of a decorated name "@X{text}"
Kind(name) == name[2]
Inner(name) == SubSeq(name, 4, Len(name) - 1)

\* the path a child name leads to below path
Below(path, n) == path \o Slash \o (IF IsDirName(n) THEN SubSeq(n, 1, Len(n) - 1) ELSE n)

\* the decorated node d, built at path, follows the rule of attachment: its
\* leaf children are the leaf names the backend lists at path, all of them
\* and in order; its namespace children are listed too, each has a child of
\* its own, and each follows the rule itself
RECURSIVE Attached(_, _, _, _)
Attached(st, gh, d, path) ==
    LET keys   == BackendKeys(st, gh, path)
        leaves == SelectSeq(keys, LAMBDA n : ~IsDirName(n))
        G      == SelectSeq(d.Sub, LAMBDA k : Kind(k.Name) = "G")
        B      == SelectSeq(d.Sub, LAMBDA k : Kind(k.Name) = "B")
    IN  /\ Len(G) + Len(B) = Len(d.Sub)
        /\ [i \in 1..Len(G) |-> Inner(G[i].Name)] = leaves
        /\ \A i \in 1..Len(G) : G[i].Sub = <<>>
        /\ \A i \in 1..Len(B) :
               /\ Len(B[i].Sub) > 0
               /\ \E j \in 1..Len(keys) : keys[j] = Inner(B[i].Name)
               /\ Attached(st, gh, B[i], Below(path, Inner(B[i].Name)))

\* the decorated tree without its decoration
RECURSIVE Plain(_)
Plain(d) ==
    [Name |-> IF Kind(d.Name) = "B"
              THEN SubSeq(Inner(d.Name), 1, Len(Inner(d.Name)) - 1)
              ELSE Inner(d.Name),
     Sub |-> [i \in 1..Len(d.Sub) |-> Plain(d.Sub[i])]]

\* C8: in a tree that Tree returns without error, every node attached for a
\* name ending in "/" has at least one child, and every leaf name listed is
\* attached; the undecorated tree is the decorated one without decoration.
C8_NoEmptyNamespace ==
    (Done("Tree") /\ res.err = NoErr) =>
        LET d == IF cmd.ansify THEN res.tree ELSE Tree(PreWorld, cmd.a, TRUE).t
        IN  /\ Attached(cmd.store, cmd.ghosts, d, cmd.a)
            /\ ~cmd.ansify => res.tree = Plain(d)

\* a tree was built where the backend lists a namespace that holds nothing,
\* next to a namespace that holds a leaf
C8_Witness ==
    /\ Done("Tree") /\ res.err = NoErr /\ ~cmd.ansify
    /\ \E n \in ChildNames(cmd.store, cmd.ghosts, cmd.a) :
           IsDirName(n) /\ ChildNames(cmd.store, cmd.ghosts, Below(cmd.a, n)) = {}
    /\ \E i \in 1..Len(res.tree.Sub) : Len(res.tree.Sub[i].Sub) > 0
    /\ Len(res.tree.Sub) < Cardinality(ChildNames(cmd.store, cmd.ghosts, cmd.a))

\* the leaves reachable from path through the backend's listings, in
\* pre-order of the listing order
RECURSIVE Leaves(_, _, _)
Leaves(st, gh, path) ==
    LET keys == BackendKeys(st, gh, path)
    IN  Flatten([i \in 1..Len(keys) |->
                   IF IsDirName(keys[i]) THEN Leaves(st, gh, Below(path, keys[i]))
                   ELSE <<Below(path, keys[i])>>])

\* C9: the path sequence of Tree(p) is the sequence of the n leaves
\* reachable from p, n = 0 included: n entries, each p followed by a child
\* suffix, in pre-order of the listing order, without duplicates.
C9_PathsAreLeaves ==
    (Done("Tree") /\ ~cmd.ansify /\ res.err = NoErr) =>
        /\ res.paths = Leaves(cmd.store, cmd.ghosts, cmd.a)
        /\ Len(res.paths) = Len(Leaves(cmd.store, cmd.ghosts, cmd.a))
        /\ \A i \in 1..Len(res.paths) :
               /\ HasPrefix(res.paths[i], cmd.a \o Slash)
               /\ Len(res.paths[i]) > Len(cmd.a) + 1
        /\ \A i, j \in 1..Len(res.paths) : res.paths[i] = res.paths[j] => i = j

\* the same for the paths with at least one reachable leaf
C9_PathsAreLeavesIfAny ==
    (Done("Tree") /\ ~cmd.ansify /\ res.err = NoErr
     /\ Leaves(cmd.store, cmd.ghosts, cmd.a) # <<>>) =>
        res.paths = Leaves(cmd.store, cmd.ghosts, cmd.a)

----------------------------------------------------------------------------
(* The transport on its own: one call of Vault.request against a backend   *)
(* that answers k redirects and then its final answer.                      *)

Envs ==
    [DEBUG : {"", "1", "OFF"}, VAULT_HOSTNAME : {"", "host"},
     VAULT_TOKEN : {"", "token"}, VAULT_ADDR : {"vault"}]

Statuses == {0, 200, 204, 404, 500}

\* Vault.request called with a request of the given method, with or
\* without a body, as Curl, Read, List, Write and Delete call it
DoRequest(method, hasBody, k, final, loc) ==
    LET body == IF hasBody THEN <<(kK :> "9")>> ELSE <<>>
        plan == [k |-> k, final |-> final, loc |-> loc]
    IN  /\ CanRun
        /\ k = 0 => loc = "abs"
        /\ cmd' = [op |-> "request", method |-> method, hasBody |-> hasBody,
                   body |-> body, plan |-> plan]
        /\ res' = request(connect,
                          NewRequest(method, VaultUrl(connect, pX, ""), hasBody, body),
                          plan, env)
        /\ phase' = "done"
        /\ steps' = steps + 1
        /\ UNCHANGED <<store, ghosts, env, dns, seal, members, unseal>>

\* the arguments of Vault.Read: a path, with or without a key
ReadArgs == {pSA, pY, pSA \o Colon \o kK, pSA \o Colon \o <<"z">>}

\* what the backend answers the GET with, when not with the secret
ReadFaults == {NoFault} \cup [m : {"GET"}, n : {1}, status : {0, 204, 404, 500}]

\* Vault.Read called on its own, as the get command calls it
DoRead(path, hops, fault) ==
    LET ran(r) ==
            /\ cmd' = Cmd("read", path, <<>>, "Read", FALSE, NewSecret, hops, fault)
            /\ res' = Res(r.w, r.err, NewNode(<<>>), <<>>, r.secret, NoErr)
    IN  /\ CanRun
        /\ ran(Read(Start(hops, fault), path))
        /\ phase' = "done"
        /\ steps' = steps + 1
        /\ UNCHANGED <<store, ghosts, env, dns, seal, members, unseal>>

InitT ==
    /\ store = Backend1.store
    /\ ghosts = Backend1.ghosts
    /\ env \in Envs
    /\ phase = "idle"
    /\ cmd = NoCmd
    /\ res = NoRes
    /\ steps = 0
    /\ dns = NoDns
    /\ seal = NoSeal
    /\ members = NoMembers
    /\ unseal = NoUnseal

NextT ==
    \/ \E method \in {"GET", "POST", "DELETE"}, hasBody \in BOOLEAN,
          k \in 0..MaxRedirects, final \in Statuses, loc \in {"abs", "rel", "bad"} :
           DoRequest(method, hasBody, k, final, loc)
    \/ \E path \in ReadArgs, hops \in 0..MaxHops, fault \in ReadFaults :
           DoRead(path, hops, fault)
    \/ Exit

SpecT == InitT /\ [][NextT]_vars

----------------------------------------------------------------------------
(* The seal command against a cluster whose members register in DNS:      *)
(* vault.service.consul lists the unsealed members and                      *)
(* active.vault.service.consul points to the active one.  The command      *)
(* blocks in its polls while the cluster changes, so each blocking call is *)
(* a step of its own.                                                       *)

Hosts == {"10.0.0.1", "10.0.0.2", "10.0.0.3"}
NoHost == ""

ErrNoBackends == "No backends detected"
ErrNoActive == "Timed out determining the active vault node"
ErrNoNewActive == "Timed out waiting for a new active vault node"
ErrSealFailed == "seal failed"

\* the target of ~/.saferc: its endpoint URL and the backends of the last sync
Configs ==
    {[target |-> FALSE, backends |-> <<>>, url |-> [scheme |-> "https", name |-> "vault", port |-> ""]],
     [target |-> TRUE, backends |-> <<>>, url |-> [scheme |-> "https", name |-> "vault", port |-> "8200"]],
     [target |-> TRUE, backends |-> <<"10.0.0.1">>, url |-> [scheme |-> "http", name |-> "vault", port |-> ""]]}

\* Config.DNS: the backends, then the endpoint's host without its port
ConfigDNS(cfg) ==
    IF cfg.target THEN Append(cfg.backends, cfg.url.name) ELSE <<>>

\* rc.SwapHost: the leading run of non-colon characters of u.Host replaced
SwapHost(u, host) ==
    IF u.name = "" THEN u ELSE [u EXCEPT !.name = host]

\* dns.HasRecordsFor(name, servers): the name resolves to at least one record
HasRecordsFor(d) == d.records # {}

\* dns.WaitForChange(name, previous, timeout, servers): the value the name
\* resolves to once it differs from previous; no value when the timeout ends
WaitForChange(d, previous) ==
    IF d.active # NoHost /\ d.active # previous
    THEN [value |-> d.active, ok |-> TRUE]
    ELSE [value |-> NoHost, ok |-> FALSE]

\* a resolution that yields a value other than the one before it
Seen(seen, value) ==
    IF seen # <<>> /\ seen[Len(seen)] = value THEN seen ELSE Append(seen, value)

SealDone(err) == seal' = [seal EXCEPT !.pc = "done", !.err = err]

SealFrame == UNCHANGED <<store, ghosts, env, phase, cmd, res, steps, members, unseal>>

\* a start that looks for the service's records instead of the servers
SealStartChecksRecords ==
    /\ seal.pc = "start"
    /\ IF ~HasRecordsFor(dns)
       THEN SealDone(ErrNoBackends)
       ELSE seal' = [seal EXCEPT !.pc = "check", !.servers = ConfigDNS(seal.cfg)]
    /\ UNCHANGED dns
    /\ SealFrame

\* cfg.DNS() names no server: "No backends detected"
SealStart ==
    /\ seal.pc = "start"
    /\ IF Len(ConfigDNS(seal.cfg)) = 0
       THEN SealDone(ErrNoBackends)
       ELSE seal' = [seal EXCEPT !.pc = "check", !.servers = ConfigDNS(seal.cfg)]
    /\ UNCHANGED dns
    /\ SealFrame

\* the loop's condition; "The Vaults are sealed!" when it no longer holds
SealCheck ==
    /\ seal.pc = "check"
    /\ IF HasRecordsFor(dns)
       THEN seal' = [seal EXCEPT !.pc = "resolve"]
       ELSE SealDone(NoErr)
    /\ UNCHANGED dns
    /\ SealFrame

\* a wait for the active entry whose timeout is not looked at
SealResolveIgnoresTimeout ==
    LET after(r) ==
            seal' = [seal EXCEPT !.pc = "seal", !.active = r.value,
                                 !.seen = IF r.ok THEN Seen(seal.seen, r.value) ELSE seal.seen]
    IN  /\ seal.pc = "resolve"
        /\ after(WaitForChange(dns, NoHost))
        /\ UNCHANGED dns
        /\ SealFrame

\* wait until there is an active entry, from an empty baseline
SealResolve ==
    LET after(r) ==
            IF r.ok
            THEN seal' = [seal EXCEPT !.pc = "seal", !.active = r.value,
                                      !.seen = Seen(seal.seen, r.value)]
            ELSE SealDone(ErrNoActive)
    IN  /\ seal.pc = "resolve"
        /\ after(WaitForChange(dns, NoHost))
        /\ UNCHANGED dns
        /\ SealFrame

\* a seal call whose error is dropped
SealCallGoesOn(ok) ==
    /\ seal.pc = "seal"
    /\ IF ok
       THEN /\ seal' = [seal EXCEPT !.pc = "await",
                                    !.sealed = Append(seal.sealed, SwapHost(seal.cfg.url, seal.active))]
            /\ dns' = [records |-> dns.records \ {seal.active},
                       active |-> IF dns.active = seal.active THEN NoHost ELSE dns.active]
       ELSE /\ seal' = [seal EXCEPT !.pc = "await",
                                    !.refused = Append(seal.refused, SwapHost(seal.cfg.url, seal.active))]
            /\ UNCHANGED dns
    /\ SealFrame

\* Vault.Seal on the Vault at the endpoint with the active host swapped in;
\* a sealed member leaves the service and the active pointer
SealCall(ok) ==
    /\ seal.pc = "seal"
    /\ IF ok
       THEN /\ seal' = [seal EXCEPT !.pc = "await",
                                    !.sealed = Append(seal.sealed, SwapHost(seal.cfg.url, seal.active))]
            /\ dns' = [records |-> dns.records \ {seal.active},
                       active |-> IF dns.active = seal.active THEN NoHost ELSE dns.active]
       ELSE /\ seal' = [seal EXCEPT !.pc = "done", !.err = ErrSealFailed,
                                    !.refused = Append(seal.refused, SwapHost(seal.cfg.url, seal.active))]
            /\ UNCHANGED dns
    /\ SealFrame

\* a wait after the seal call whose timeout is not looked at
SealAwaitIgnoresTimeout ==
    LET after(r) ==
            seal' = [seal EXCEPT !.pc = "check",
                                 !.seen = IF r.ok THEN Seen(seal.seen, r.value) ELSE seal.seen]
    IN  /\ seal.pc = "await"
        /\ after(WaitForChange(dns, seal.active))
        /\ UNCHANGED dns
        /\ SealFrame

\* wait until the active entry changes away from the host just sealed;
\* the value it changes to is dropped
SealAwait ==
    LET after(r) ==
            IF r.ok
            THEN seal' = [seal EXCEPT !.pc = "check", !.seen = Seen(seal.seen, r.value)]
            ELSE SealDone(ErrNoNewActive)
    IN  /\ seal.pc = "await"
        /\ after(WaitForChange(dns, seal.active))
        /\ UNCHANGED dns
        /\ SealFrame

\* the cluster elects one of its unsealed members
Elect(h) ==
    /\ seal.pc # "done"
    /\ dns.active = NoHost
    /\ h \in dns.records
    /\ dns' = [dns EXCEPT !.active = h]
    /\ UNCHANGED seal
    /\ SealFrame

\* a member leaves the service on its own (stopped, or sealed by someone else)
Leave(h) ==
    /\ seal.pc # "done"
    /\ h \in dns.records
    /\ dns' = [records |-> dns.records \ {h},
               active |-> IF dns.active = h THEN NoHost ELSE dns.active]
    /\ UNCHANGED seal
    /\ SealFrame

InitS ==
    /\ store = Backend1.store
    /\ ghosts = Backend1.ghosts
    /\ env = [DEBUG |-> "", VAULT_HOSTNAME |-> "", VAULT_TOKEN |-> "token",
              VAULT_ADDR |-> "vault"]
    /\ phase = "idle"
    /\ cmd = NoCmd
    /\ res = NoRes
    /\ steps = 0
    /\ \E recs \in SUBSET Hosts, a \in Hosts \cup {NoHost} :
           /\ a # NoHost => a \in recs
           /\ dns = [records |-> recs, active |-> a]
    /\ \E cfg \in Configs :
           seal = [pc |-> "start", cfg |-> cfg, servers |-> <<>>, active |-> NoHost,
                   seen |-> <<>>, sealed |-> <<>>, refused |-> <<>>, err |-> NoErr,
                   atStart |-> HasRecordsFor(dns)]
    /\ members = NoMembers
    /\ unseal = NoUnseal

NextS ==
    \/ SealStart
    \/ SealCheck
    \/ SealResolve
    \/ \E ok \in BOOLEAN : SealCall(ok)
    \/ SealAwait
    \/ \E h \in Hosts : Elect(h)
    \/ \E h \in Hosts : Leave(h)

SpecS == InitS /\ [][NextS]_vars

\* the URLs of the hosts that the resolutions yielded
SeenUrls == [i \in 1..Len(seal.seen) |-> SwapHost(seal.cfg.url, seal.seen[i])]

\* C10: when the successive resolutions of the active pointer yield
\* A1, ..., Ak, no seal call is refused and the service ends with no
\* records, the command has sealed exactly A1, ..., Ak in that order and
\* ends without error.
C10_SealSequencing ==
    (/\ seal.pc = "done"
     /\ seal.seen # <<>>
     /\ seal.refused = <<>>
     /\ ~HasRecordsFor(dns))
    => (seal.sealed = SeenUrls /\ seal.err = NoErr)

\* what the command does instead: a run that ends without error has not
\* sealed the last host it resolved, and a run that has sealed every host
\* it resolved ends in the timeout of the wait that follows the seal call
C10_LastWaitDecides ==
    (seal.pc = "done" /\ seal.seen # <<>> /\ seal.refused = <<>>)
    => /\ seal.err = NoErr => Len(seal.sealed) < Len(seal.seen)
       /\ seal.sealed = SeenUrls => seal.err = ErrNoNewActive

\* C11: a step of the command from a wait that has timed out ends the
\* command: with "Timed out determining the active vault node" from the
\* wait for the active node, before any seal call of that iteration, and
\* with "Timed out waiting for a new active vault node" from the wait that
\* follows a seal call; no seal call is added, and an ended command takes
\* no further step.
C11_SealTimeouts ==
    [][/\ (seal.pc = "resolve" /\ ~WaitForChange(dns, NoHost).ok /\ seal' # seal)
          => (/\ seal'.pc = "done" /\ seal'.err = ErrNoActive
              /\ seal'.sealed = seal.sealed /\ seal'.refused = seal.refused)
       /\ (seal.pc = "await" /\ ~WaitForChange(dns, seal.active).ok /\ seal' # seal)
          => (/\ seal'.pc = "done" /\ seal'.err = ErrNoNewActive
              /\ seal'.sealed = seal.sealed /\ seal'.refused = seal.refused)
       /\ seal.pc = "done" => (seal' = seal /\ dns' = dns)]_vars

\* the wait for the active node times out in the iteration after a seal
C11_Witness ==
    /\ seal.pc = "done"
    /\ seal.err = ErrNoActive
    /\ Len(seal.sealed) = 1

\* C12 as stated: the command fails with "No backends detected" whenever
\* the service has no record at the start, and never ends without error
\* having sealed no host.
C12_NoBackends ==
    seal.pc = "done" =>
        /\ ~seal.atStart => seal.err = ErrNoBackends
        /\ seal.err = NoErr => seal.sealed # <<>>

\* C12 amended: the command fails with "No backends detected" exactly when
\* the configuration names no DNS server (it has no current target); with
\* servers named and no record of the service at the start, it ends
\* without error having sealed no host.
C12_NoServers ==
    seal.pc = "done" =>
        /\ seal.err = ErrNoBackends <=> Len(ConfigDNS(seal.cfg)) = 0
        /\ seal.err = ErrNoBackends => seal.sealed = <<>>
        /\ (Len(ConfigDNS(seal.cfg)) # 0 /\ ~seal.atStart)
           => (seal.err = NoErr /\ seal.sealed = <<>> /\ seal.refused = <<>>)

\* servers are named, the service has no record, the command reports success
C12_Witness ==
    /\ seal.pc = "done"
    /\ Len(ConfigDNS(seal.cfg)) # 0
    /\ ~seal.atStart
    /\ seal.err = NoErr
    /\ seal.sealed = <<>>

\* the hosts of the URLs sealed so far
SealedHosts == {seal.sealed[i].name : i \in 1..Len(seal.sealed)}

\* C13: a refused seal call ends the command at once with its error: the
\* command is not waiting, one call has been refused and none follows it,
\* and the hosts sealed before are still out of the service.
C13_SealFailureAborts ==
    seal.refused # <<>> =>
        /\ seal.pc = "done"
        /\ seal.err = ErrSealFailed
        /\ Len(seal.refused) = 1
        /\ seal.refused[1] = SwapHost(seal.cfg.url, seal.active)
        /\ SealedHosts \cap dns.records = {}
        /\ seal.refused[1] \notin {seal.sealed[i] : i \in 1..Len(seal.sealed)}

\* the seal call for the second active node is refused
C13_Witness ==
    /\ seal.refused # <<>>
    /\ Len(seal.sealed) = 1
    /\ seal.err = ErrSealFailed

----------------------------------------------------------------------------
(* The unseal command over the members the configuration names.  Each      *)
(* turn of its loop is a step: the status query of one member, the prompt  *)
(* for the key shares when none are held, and the unseal submission.       *)

MaxThreshold == 2

Shares == {"key1", "key2"}

ErrCheckSeal == "seal status failed"
MsgNone == ""
MsgUnsealed == "Unsealed the Vault(s)"
MsgAlready == "Vaults are already unsealed; taking no action."

\* the targets of ~/.saferc the unseal command is run with
ConfigsU ==
    {[target |-> FALSE, backends |-> <<>>, url |-> [scheme |-> "https", name |-> "vault", port |-> ""]],
     [target |-> TRUE, backends |-> <<>>, url |-> [scheme |-> "https", name |-> "vault", port |-> "8200"]],
     [target |-> TRUE, backends |-> <<"10.0.0.1", "10.0.0.2">>,
      url |-> [scheme |-> "https", name |-> "vault", port |-> "8200"]],
     [target |-> TRUE, backends |-> <<"10.0.0.3", "10.0.0.1", "10.0.0.2">>,
      url |-> [scheme |-> "http", name |-> "vault", port |-> ""]]}

\* Config.VaultEndpoints: the endpoint URL with each backend as its host
VaultEndpoints(cfg) ==
    IF cfg.target
    THEN [i \in 1..Len(cfg.backends) |-> SwapHost(cfg.url, cfg.backends[i])]
    ELSE <<>>

\* connectAll: one Vault per endpoint
connectAll(hosts, e) ==
    [i \in 1..Len(hosts) |-> NewVault(hosts[i], e.VAULT_TOKEN, e)]

\* Vault.CheckSeal: the member's seal status, or the error of the query
CheckSeal(m, v, fail) ==
    IF fail THEN [sealed |-> FALSE, threshold |-> 0, err |-> ErrCheckSeal]
    ELSE [sealed |-> m[v.URL.name].sealed, threshold |-> m[v.URL.name].t, err |-> NoErr]

\* the requests of one run, in order
Query(v) == [op |-> "status", url |-> v.URL, keys |-> <<>>, ok |-> TRUE]
Submit(v, keys, ok) == [op |-> "unseal", url |-> v.URL, keys |-> keys, ok |-> ok]

UnsealFrame == UNCHANGED <<store, ghosts, env, phase, cmd, res, steps, dns, seal>>

\* cfg.VaultEndpoints() names no member: "No backends detected"
UnsealStart ==
    /\ unseal.pc = "start"
    /\ IF Len(VaultEndpoints(unseal.cfg)) = 0
       THEN unseal' = [unseal EXCEPT !.pc = "done", !.err = ErrNoBackends]
       ELSE unseal' = [unseal EXCEPT !.pc = "member", !.i = 1,
                          !.vaults = connectAll(VaultEndpoints(unseal.cfg), env)]
    /\ UNCHANGED members
    /\ UnsealFrame

\* a turn that submits the shares whatever the member reports
UnsealMemberSubmitsAll(fail, shares, ok) ==
    LET v == unseal.vaults[unseal.i]
        after(r) ==
            IF r.err # NoErr
            THEN /\ unseal' = [unseal EXCEPT !.pc = "done", !.err = r.err,
                                  !.log = Append(unseal.log, Query(v))]
                 /\ UNCHANGED members
            ELSE LET prompt == Len(unseal.keys) = 0 /\ r.threshold > 0
                     keys   == IF prompt THEN shares ELSE unseal.keys
                 IN  /\ Len(shares) = IF prompt THEN r.threshold ELSE 0
                     /\ unseal' = [unseal EXCEPT !.i = unseal.i + 1,
                                      !.keys = keys,
                                      !.prompts = IF prompt
                                                  THEN Append(unseal.prompts, [at |-> unseal.i, n |-> r.threshold])
                                                  ELSE unseal.prompts,
                                      !.log = unseal.log \o <<Query(v), Submit(v, keys, ok)>>,
                                      !.reported = Append(unseal.reported, r)]
                     /\ members' = IF ok THEN [members EXCEPT ![v.URL.name].sealed = FALSE]
                                   ELSE members
    IN  /\ unseal.pc = "member"
        /\ unseal.i <= Len(unseal.vaults)
        /\ after(CheckSeal(members, v, fail))
        /\ UnsealFrame

\* one turn of the loop: CheckSeal, the prompt for threshold shares when no
\* share is held, Unseal(keys); the result of Unseal is not looked at
UnsealMember(fail, shares, ok) ==
    LET v == unseal.vaults[unseal.i]
        after(r) ==
            IF r.err # NoErr
            THEN /\ shares = <<>> /\ ok
                 /\ unseal' = [unseal EXCEPT !.pc = "done", !.err = r.err,
                                  !.log = Append(unseal.log, Query(v))]
                 /\ UNCHANGED members
            ELSE IF ~r.sealed
            THEN /\ shares = <<>> /\ ok
                 /\ unseal' = [unseal EXCEPT !.i = unseal.i + 1,
                                  !.log = Append(unseal.log, Query(v)),
                                  !.reported = Append(unseal.reported, r)]
                 /\ UNCHANGED members
            ELSE LET prompt == Len(unseal.keys) = 0
                     keys   == IF prompt THEN shares ELSE unseal.keys
                 IN  /\ Len(shares) = IF prompt THEN r.threshold ELSE 0
                     /\ unseal' = [unseal EXCEPT !.i = unseal.i + 1,
                                      !.keys = keys,
                                      !.prompts = IF prompt
                                                  THEN Append(unseal.prompts, [at |-> unseal.i, n |-> r.threshold])
                                                  ELSE unseal.prompts,
                                      !.log = unseal.log \o <<Query(v), Submit(v, keys, ok)>>,
                                      !.reported = Append(unseal.reported, r)]
                     /\ members' = IF ok THEN [members EXCEPT ![v.URL.name].sealed = FALSE]
                                   ELSE members
    IN  /\ unseal.pc = "member"
        /\ unseal.i <= Len(unseal.vaults)
        /\ after(CheckSeal(members, v, fail))
        /\ UnsealFrame

\* an end of the loop that always reports the Vaults unsealed
UnsealFinishAlwaysUnsealed ==
    /\ unseal.pc = "member"
    /\ unseal.i > Len(unseal.vaults)
    /\ unseal' = [unseal EXCEPT !.pc = "done", !.msg = MsgUnsealed]
    /\ UNCHANGED members
    /\ UnsealFrame

\* after the loop: the message depends on whether shares were collected
UnsealFinish ==
    /\ unseal.pc = "member"
    /\ unseal.i > Len(unseal.vaults)
    /\ unseal' = [unseal EXCEPT !.pc = "done",
                      !.msg = IF Len(unseal.keys) # 0 THEN MsgUnsealed ELSE MsgAlready]
    /\ UNCHANGED members
    /\ UnsealFrame

\* the shares the user may type at one prompt
ShareSeqs == UNION {[1..n -> Shares] : n \in 0..MaxThreshold}

InitU ==
    /\ store = Backend1.store
    /\ ghosts = Backend1.ghosts
    /\ env = [DEBUG |-> "", VAULT_HOSTNAME |-> "", VAULT_TOKEN |-> "token",
              VAULT_ADDR |-> "vault"]
    /\ phase = "idle"
    /\ cmd = NoCmd
    /\ res = NoRes
    /\ steps = 0
    /\ dns = NoDns
    /\ seal = NoSeal
    /\ members \in [Hosts -> [sealed : BOOLEAN, t : 0..MaxThreshold]]
    /\ \E cfg \in ConfigsU :
           unseal = [pc |-> "start", cfg |-> cfg, i |-> 0, vaults |-> <<>>, keys |-> <<>>,
                     prompts |-> <<>>, log |-> <<>>, reported |-> <<>>,
                     err |-> NoErr, msg |-> MsgNone]

NextU ==
    \/ UnsealStart
    \/ \E fail \in BOOLEAN, shares \in ShareSeqs, ok \in BOOLEAN :
           UnsealMember(fail, shares, ok)
    \/ UnsealFinish

SpecU == InitU /\ [][NextU]_vars

\* the unseal submissions of the run, and the indices of the sealed reports
Submissions == SelectSeq(unseal.log, LAMBDA c : c.op = "unseal")
SealedAt == {j \in 1..Len(unseal.reported) : unseal.reported[j].sealed}
FirstSealed == CHOOSE j \in SealedAt : \A k \in SealedAt : j <= k

\* the requests the member of turn j received
RequestsTo(j) == SelectSeq(unseal.log, LAMBDA c : c.url = unseal.vaults[j].URL)

\* C14: the shares are prompted for at most once, at the first member that
\* reports sealed, and as many as that member's threshold; every unseal
\* submission of the run carries that same sequence of shares, whatever
\* threshold the member it goes to reports.
C14_SharesPromptedOnce ==
    /\ Len(unseal.prompts) <= 1
    /\ SealedAt # {} =>
           /\ unseal.prompts = <<[at |-> FirstSealed, n |-> unseal.reported[FirstSealed].threshold]>>
           /\ Len(unseal.keys) = unseal.reported[FirstSealed].threshold
    /\ SealedAt = {} => unseal.prompts = <<>>
    /\ \A i \in 1..Len(Submissions) : Submissions[i].keys = unseal.keys

\* what holds: the statement of C14 while every member that reported sealed
\* reported a threshold above 0
C14_SharesPromptedOncePositive ==
    (\A j \in SealedAt : unseal.reported[j].threshold > 0) => C14_SharesPromptedOnce

\* C15: of the members whose status the run has obtained, exactly those
\* that reported sealed received an unseal submission (one, after the
\* status query); a member that reported unsealed received the status query
\* and nothing else.
C15_SubmitIffSealed ==
    \A j \in 1..Len(unseal.reported) :
        /\ unseal.reported[j].sealed =>
               /\ Len(RequestsTo(j)) = 2
               /\ RequestsTo(j)[1] = Query(unseal.vaults[j])
               /\ RequestsTo(j)[2].op = "unseal"
        /\ ~unseal.reported[j].sealed => RequestsTo(j) = <<Query(unseal.vaults[j])>>

\* a run over three members of which some were sealed and some were not
C15_Witness ==
    /\ unseal.pc = "done"
    /\ Len(unseal.reported) = 3
    /\ SealedAt # {} /\ SealedAt # 1..3

\* C16: when no member has reported sealed, no share has been prompted for
\* and no unseal submission made, and the command that reaches the end of
\* its loop reports "Vaults are already unsealed; taking no action."
C16_AlreadyUnsealed ==
    SealedAt = {} =>
        /\ unseal.prompts = <<>> /\ unseal.keys = <<>>
        /\ Submissions = <<>>
        /\ (unseal.pc = "done" /\ unseal.err = NoErr) => unseal.msg = MsgAlready

\* every member was asked and none was sealed
C16_Witness ==
    /\ unseal.pc = "done" /\ unseal.err = NoErr
    /\ Len(unseal.reported) >= 2
    /\ SealedAt = {}
    /\ unseal.msg = MsgAlready

\* C17: a failed status query or a failed unseal submission ends the
\* command with that error: it is the last request of the run, and the
\* members unsealed before stay unsealed.
C17_UnsealAbortsOnError ==
    /\ unseal.err = ErrCheckSeal =>
           (unseal.pc = "done" /\ unseal.log[Len(unseal.log)].op = "status")
    /\ \A i \in 1..Len(unseal.log) :
           ~unseal.log[i].ok =>
               /\ i = Len(unseal.log)
               /\ unseal.pc = "done" => unseal.err # NoErr
    /\ \A i \in 1..Len(unseal.log) :
           (unseal.log[i].op = "unseal" /\ unseal.log[i].ok)
               => ~members[unseal.log[i].url.name].sealed

\* the half of C17 the command keeps: a failed status query ends the run,
\* later members receive no request, earlier ones stay unsealed
C17_StatusErrorAborts ==
    /\ unseal.err = ErrCheckSeal =>
           (unseal.pc = "done" /\ unseal.log[Len(unseal.log)].op = "status"
            /\ Len(unseal.reported) = unseal.i - 1)
    /\ \A i \in 1..Len(unseal.log) :
           (unseal.log[i].op = "unseal" /\ unseal.log[i].ok)
               => ~members[unseal.log[i].url.name].sealed

----------------------------------------------------------------------------
(* Properties of the transport and of Read, checked under SpecT.            *)

\* the headers Vault.request adds for its Vault
Configured ==
    (IF connect.Host # "" THEN <<(<<"Host", connect.Host>>)>> ELSE <<>>)
    \o (IF connect.Token # "" THEN <<(<<"X-Vault-Token", connect.Token>>)>> ELSE <<>>)

Untraced ==
    request(NewVault(env.VAULT_ADDR, env.VAULT_TOKEN, env),
            NewRequest(cmd.method, VaultUrl(connect, pX, ""), cmd.hasBody, cmd.body),
            cmd.plan, [env EXCEPT !.DEBUG = ""])

\* C19: with tracing on, Vault.request returns the response or the error it
\* returns with tracing off, after the same HTTP requests, whatever the
\* backend does, a transport failure included.
C19_TracingKeepsControlFlow ==
    Done("request") => res = Untraced

\* what holds: tracing changes nothing as long as every attempt is answered
C19_TracingWhenAnswered ==
    (Done("request") /\ res.err # ErrPanic) => res = Untraced

\* the status the GET of a Read was answered with, 0 for no answer
ReadStatus ==
    IF res.log[1].refused THEN cmd.fault.status
    ELSE BackendStatus(cmd.store, cmd.ghosts, "GET", res.log[1].p)

\* the secret a Read of the path yields: every key, or the one named
ReadOf(st, fullpath) ==
    LET i    == IndexOf(fullpath, Colon)
        path == IF i > 0 THEN SubSeq(fullpath, 1, i - 1) ELSE fullpath
        key  == IF i > 0 THEN SubSeq(fullpath, i + 1, Len(fullpath)) ELSE <<>>
    IN  [k \in {x \in DOMAIN st[path] : key = <<>> \/ x = key} |-> st[path][k].v]

\* C20: Read maps the final status to one outcome: 200 to the secret, 404
\* to NotFound, any other status to "API <status>", and a transport
\* failure to the transport's error.
C20_ReadStatuses ==
    Done("read") =>
        /\ Len(res.log) = 1
        /\ ReadStatus = 200 => (res.err = NoErr /\ res.secret = ReadOf(cmd.store, cmd.a))
        /\ ReadStatus = 404 => res.err = NotFound
        /\ ReadStatus \in {204, 500} => res.err = ApiErr(ReadStatus)
        /\ ReadStatus = 0 => res.err = ErrTransport

\* what holds: the mapping of C20 when the process runs without DEBUG
C20_ReadStatusesUntraced ==
    (Done("read") /\ ~shouldDebug(env)) => C20_ReadStatuses

----------------------------------------------------------------------------
(* Properties of List and Tree, checked under Spec.                         *)

\* the status the i-th call of the command was answered with
StatusOf(i) ==
    IF res.log[i].refused THEN cmd.fault.status
    ELSE IF res.log[i].served THEN IF res.log[i].m \in {"GET", "LIST"} THEN 200 ELSE 204
    ELSE 404

\* the command's first List found no namespace at the path and read it
FellBack ==
    /\ Done("Tree")
    /\ Len(res.log) >= 2
    /\ res.log[1].m = "LIST" /\ res.log[1].p = cmd.a /\ StatusOf(1) = 404
    /\ res.log[2].m = "GET" /\ res.log[2].p = cmd.a

\* C21: when the list request is answered 404, List reads the same path;
\* a 404 of that read makes List fail with NotFound, and a 200 (the path is
\* a secret, whatever its keys) makes List succeed with no children.
C21_ListFallback ==
    (Done("Tree") /\ Len(res.log) >= 1 /\ StatusOf(1) = 404 /\ res.log[1].m = "LIST") =>
        /\ FellBack
        /\ StatusOf(2) = 404 => res.err = NotFound
        /\ StatusOf(2) = 200 =>
               (res.err = NoErr /\ res.tree.Sub = <<>> /\ Len(res.log) = 2)

\* what holds: the same, for a secret that has no key named "keys"
C21_ListFallbackNoKeys ==
    (Done("Tree") /\ Len(res.log) >= 1 /\ StatusOf(1) = 404 /\ res.log[1].m = "LIST") =>
        /\ FellBack
        /\ StatusOf(2) = 404 => res.err = NotFound
        /\ (StatusOf(2) = 200 /\ KeysName \notin DOMAIN cmd.store[cmd.a]) =>
               (res.err = NoErr /\ res.tree.Sub = <<>> /\ Len(res.log) = 2)
        /\ (StatusOf(2) = 200 /\ KeysName \in DOMAIN cmd.store[cmd.a]) =>
               res.err = ErrUnmarshal

----------------------------------------------------------------------------
(* The recursive commands against a backend where a namespace may be gone  *)
(* by the time it is listed.                                                *)

\* the refusals of Faults, and a 404 for the n-th list request
FaultsL(hops) ==
    FaultsAt(hops) \cup [m : {"LIST"}, n : 1..MaxFault, status : {404}]

NextL ==
    \/ \E path \in PathArgs, ansify \in BOOLEAN, hops \in 0..MaxHops : \E fault \in FaultsL(hops) :
           DoTree(path, ansify, hops, fault)
    \/ \E path \in PathArgs, recurse \in BOOLEAN, hops \in 0..MaxHops : \E fault \in FaultsL(hops) :
           DoDelete(path, recurse, hops, fault)
    \/ \E f \in {"Move", "Copy"}, old \in PathArgs, new \in {pS, pY},
          hops \in 0..MaxHops : \E fault \in FaultsL(hops) :
           DoMoveCopyTree(f, old, new, hops, fault)
    \/ Exit

SpecL == Init /\ [][NextL]_vars

\* the i-th call of the command is a list request, or the read List falls
\* back to, and failed: the listing of that path is an error
ListingFailed(i) ==
    \/ res.log[i].m = "LIST" /\ StatusOf(i) \notin {200, 404}
    \/ /\ i > 1
       /\ res.log[i].m = "GET" /\ res.log[i - 1].m = "LIST"
       /\ res.log[i - 1].p = res.log[i].p /\ StatusOf(i - 1) = 404
       /\ StatusOf(i) # 200

\* the commands that build a tree first
Recursive ==
    \/ Done("Tree")
    \/ Done("DeleteTree")
    \/ Done("MoveCopyTree")

\* C22: a listing that fails at any depth of the build, a listed namespace
\* that is gone included, is the last request of the command: the command
\* returns that error, visits no further child, and deletes and writes
\* nothing.
C22_TreeErrorAborts ==
    Recursive =>
        \A i \in 1..Len(res.log) :
            ListingFailed(i) =>
                /\ i = Len(res.log)
                /\ res.err = IF StatusOf(i) = 404 THEN NotFound ELSE ApiErr(StatusOf(i))
                /\ \A j \in 1..Len(res.log) : res.log[j].m \notin {"POST", "DELETE"}
                /\ store = cmd.store

\* a namespace listed at depth two was gone when its turn came, in a
\* recursive delete
C22_Witness ==
    /\ Done("DeleteTree")
    /\ Len(res.log) >= 3
    /\ ListingFailed(Len(res.log))
    /\ res.err = NotFound

----------------------------------------------------------------------------
(* The set command: read, set the keys of the command line, write.          *)

\* the key=value arguments of one command line, in order
SetArgs ==
    {<<[k |-> <<"n">>, v |-> "5"]>>,
     <<[k |-> kK, v |-> "9"]>>,
     <<[k |-> <<"n">>, v |-> "5"], [k |-> <<"n">>, v |-> "6"]>>,
     <<[k |-> kK, v |-> "9"], [k |-> <<"n">>, v |-> "5"]>>}

\* s.Set(k, v) for every argument, first to last
RECURSIVE SetAll(_, _)
SetAll(s, sets) ==
    IF sets = <<>> THEN s
    ELSE SetAll([x \in DOMAIN s \cup {Head(sets).k} |->
                    IF x = Head(sets).k THEN Head(sets).v ELSE s[x]],
                Tail(sets))

\* a set command that writes the named keys alone
SetFromEmpty(w, path, sets) ==
    LET after(r) ==
            IF r.err # NoErr /\ r.err # NotFound THEN [w |-> r.w, err |-> r.err]
            ELSE Write(r.w, path, SetAll(NewSecret, sets))
    IN  after(Read(w, path))

\* the body of the set command
SetCmd(w, path, sets) ==
    LET after(r) ==
            IF r.err # NoErr /\ r.err # NotFound THEN [w |-> r.w, err |-> r.err]
            ELSE Write(r.w, path, SetAll(r.secret, sets))
    IN  after(Read(w, path))

DoSet(path, sets, hops, fault) ==
    LET ran(r) ==
          /\ Hit(r.w, fault)
          /\ Finish(Cmd("set", path, <<>>, "", FALSE, SetAll(NewSecret, sets), hops, fault),
                    r.w, Res(r.w, r.err, NewNode(<<>>), <<>>, NewSecret, "skipped"))
    IN  CanRun /\ ran(SetCmd(Start(hops, fault), path, sets))

NextW ==
    \/ \E path \in PathArgs, sets \in SetArgs, hops \in 0..MaxHops :
          \E fault \in FaultsAt(hops) : DoSet(path, sets, hops, fault)
    \/ Exit

SpecW == Init /\ [][NextW]_vars

\* the keys and values at the path before the command, as Read returns them
Before(p) == IF p \in DOMAIN cmd.store THEN Content(cmd.store, p) ELSE NewSecret

----------------------------------------------------------------------------
(* Read of a path that holds nothing, checked under SpecT.                  *)

\* C24: when nothing is at the path, Read returns no error (and a nil
\* secret), as its documentation says.
C24_ReadNothingNoError ==
    (Done("read") /\ ReadStatus = 404 /\ Len(res.log) = 1) => res.err = NoErr

\* what Read does: a path that holds nothing yields the error NotFound,
\* with the empty secret of NewSecret
C24_ReadNothingNotFound ==
    (Done("read") /\ ReadStatus = 404 /\ ~shouldDebug(env)) =>
        (res.err = NotFound /\ res.secret = NewSecret)

----------------------------------------------------------------------------
(* Move and copy, one path onto another or onto itself, checked under Spec. *)

\* C25: after a Move that returned no error the new path holds what the old
\* path held before the call, for every pair of paths, old = new included.
C25_MoveKeepsSecret ==
    (Done("Move") /\ res.err = NoErr) =>
        /\ cmd.b \in DOMAIN store
        /\ Content(store, cmd.b) = Content(cmd.store, cmd.a)

\* what holds: the secret is at the new path when the two paths differ
C25_MoveKeepsSecretElsewhere ==
    (Done("Move") /\ res.err = NoErr /\ cmd.a # cmd.b) =>
        /\ cmd.b \in DOMAIN store
        /\ Content(store, cmd.b) = Content(cmd.store, cmd.a)

----------------------------------------------------------------------------
(* Recursive move and copy between roots that may lie within each other.    *)

pSBA == <<"s", "/", "b", "/", "a">>

\* s/a, and s/b/a below the namespace s/b
Backend4 ==
    [store  |-> (pSA :> (kK :> Str("1"))) @@ (pSBA :> (kK :> Str("2"))),
     ghosts |-> {}]

RootArgs == {pS, pSB, pX, pY}

InitO ==
    /\ \E b \in {Backend2, Backend4} : store = b.store /\ ghosts = b.ghosts
    /\ env = [DEBUG |-> "", VAULT_HOSTNAME |-> "", VAULT_TOKEN |-> "token",
              VAULT_ADDR |-> "vault"]
    /\ phase = "idle"
    /\ cmd = NoCmd
    /\ res = NoRes
    /\ steps = 0
    /\ dns = NoDns
    /\ seal = NoSeal
    /\ members = NoMembers
    /\ unseal = NoUnseal

NextO ==
    \/ \E f \in {"Move", "Copy"}, old \in RootArgs, new \in RootArgs,
          hops \in 0..MaxHops : \E fault \in FaultsAt(hops) :
           DoMoveCopyTree(f, old, new, hops, fault)
    \/ Exit

SpecO == InitO /\ [][NextO]_vars

\* the leaf L of the tree built at the old root is, after the command, at
\* its destination with the content it had before
Arrived(L) ==
    /\ L \in DOMAIN cmd.store
    /\ Replace1(L, cmd.a, cmd.b) \in DOMAIN store
    /\ Content(store, Replace1(L, cmd.a, cmd.b)) = Content(cmd.store, L)

\* neither root lies under the other
Apart(a, b) == ~HasPrefix(a, b) /\ ~HasPrefix(b, a)

\* C26: after a recursive move or copy that returned no error, the
\* destination of every leaf of the tree built at the old root holds what
\* the leaf held before the call, whether or not the two subtrees overlap.
C26_TreeKeepsLeaves ==
    (Done("MoveCopyTree") /\ res.err = NoErr) =>
        \A i \in 1..Len(TreePaths) : Arrived(TreePaths[i])

\* what holds: every leaf arrives when neither root lies under the other
C26_TreeKeepsLeavesApart ==
    (Done("MoveCopyTree") /\ res.err = NoErr /\ Apart(cmd.a, cmd.b)) =>
        \A i \in 1..Len(TreePaths) : Arrived(TreePaths[i])

\* what fails without any move: a copy into a namespace of its own tree
\* writes over a leaf that is copied later
C26_CopyKeepsLeaves ==
    (Done("MoveCopyTree") /\ res.err = NoErr /\ cmd.f = "Copy") =>
        \A i \in 1..Len(TreePaths) : Arrived(TreePaths[i])

----------------------------------------------------------------------------
(* The seal command against a cluster whose members may come back.          *)

MaxSeals == 2

\* a member enters the service again (started, or unsealed by someone else)
Join(h) ==
    /\ seal.pc # "done"
    /\ h \notin dns.records
    /\ Len(seal.sealed) < MaxSeals
    /\ dns' = [dns EXCEPT !.records = @ \cup {h}]
    /\ UNCHANGED seal
    /\ SealFrame

NextJ ==
    \/ NextS
    \/ \E h \in Hosts : Join(h)

SpecJ == InitS /\ [][NextJ]_vars

\* how often x is in the sequence s
Times(s, x) == Cardinality({i \in 1..Len(s) : s[i] = x})

\* C27: no host receives two seal calls within one run.
C27_NoHostSealedTwice ==
    \A i, j \in 1..Len(seal.sealed) : i # j => seal.sealed[i] # seal.sealed[j]

\* what holds: a host is sealed once for each time the active entry came to
\* resolve to it, so between two seal calls to one host a poll has seen the
\* entry on another host
C27_SealedOncePerTurn ==
    \A h \in Hosts : Times(seal.sealed, SwapHost(seal.cfg.url, h)) <= Times(seal.seen, h)

\* a host was sealed, came back, became the active node and was sealed again
C27_Witness ==
    /\ seal.pc = "done"
    /\ \E h \in Hosts : Times(seal.sealed, SwapHost(seal.cfg.url, h)) = 2

----------------------------------------------------------------------------
(* The message of the unseal command, checked under SpecU.                  *)

\* C28: the command reports "Vaults are already unsealed; taking no action."
\* only if no member reported sealed and no unseal submission was made,
\* a first sealed member of threshold 0 included.
C28_AlreadyMeansNoAction ==
    (unseal.pc = "done" /\ unseal.msg = MsgAlready) =>
        /\ SealedAt = {}
        /\ Submissions = <<>>

\* what holds: the message tells that no share was collected, which is the
\* case when every member that reported sealed reported threshold 0
C28_AlreadyMeansNoShares ==
    (unseal.pc = "done" /\ unseal.msg = MsgAlready) =>
        /\ unseal.keys = <<>>
        /\ \A j \in SealedAt : unseal.reported[j].threshold = 0
        /\ \A i \in 1..Len(Submissions) : Submissions[i].keys = <<>>

----------------------------------------------------------------------------
(* The seal status of one Vault: checkSealStatus, Sealed, SealThreshold.    *)

pSealStatus == <<"sys", "/", "seal-status">>

\* v.seal before the first check
Nil == [set |-> FALSE]

\* the zero value of the struct seal
ZeroSeal == [set |-> TRUE, Sealed |-> FALSE, Threshold |-> 0]

\* what the member answers with a status 200: its seal status as JSON
\* {"sealed": ..., "t": ...}, or a body that is no JSON
SealBodies ==
    [json : {TRUE}, sealed : BOOLEAN, t : 0..MaxThreshold]
        \cup {[json |-> FALSE, sealed |-> FALSE, t |-> 0]}

\* json.Unmarshal into the struct seal: the fields carry yaml tags only, so
\* "sealed" is matched to Sealed by its name and "t" is matched to nothing
DecodeSeal(b) == [set |-> TRUE, Sealed |-> b.sealed, Threshold |-> 0]

\* checkSealStatus: v.seal after the call, r being the result of the request
\* it makes when v.seal is nil
Stored(vseal, r, b) ==
    IF vseal.set THEN vseal
    ELSE IF r.err # NoErr THEN Nil
    ELSE IF r.status = 200 THEN (IF b.json THEN DecodeSeal(b) ELSE Nil)
    ELSE ZeroSeal

\* Sealed and SealThreshold: the field of v.seal, a nil pointer dereference
\* when checkSealStatus left v.seal nil
Field(fn, s) ==
    IF ~s.set THEN [err |-> ErrPanic, value |-> "none"]
    ELSE [err |-> NoErr,
          value |-> IF fn = "Sealed" THEN (IF s.Sealed THEN "sealed" ELSE "unsealed")
                    ELSE IF s.Threshold = 0 THEN "0" ELSE "n"]

\* one process calls first and then, if it is still running, second on a
\* Vault it has just connected
DoSealStatus(first, second, k, final, loc, b) ==
    LET plan == [k |-> k, final |-> final, loc |-> loc]
        out(r, s1, s2) ==
            [err |-> IF r.err = ErrPanic THEN ErrPanic ELSE Field(first, s1).err,
             status |-> r.status, reqerr |-> r.err, sent |-> r.sent,
             values |-> IF r.err = ErrPanic \/ ~s1.set THEN <<>>
                        ELSE <<Field(first, s1).value, Field(second, s2).value>>,
             seal |-> s2]
        after(r) == out(r, Stored(Nil, r, b), Stored(Stored(Nil, r, b), r, b))
    IN  /\ CanRun
        /\ k = 0 => loc = "abs"
        /\ cmd' = [op |-> "sealstatus", first |-> first, second |-> second,
                   plan |-> plan, body |-> b]
        /\ res' = after(request(connect,
                                NewRequest("GET", VaultUrl(connect, pSealStatus, ""), FALSE, <<>>),
                                plan, env))
        /\ phase' = "done"
        /\ steps' = steps + 1
        /\ UNCHANGED <<store, ghosts, env, dns, seal, members, unseal>>

NextQ ==
    \/ \E first \in {"Sealed", "SealThreshold"}, second \in {"Sealed", "SealThreshold"},
          k \in 0..MaxHops, final \in Statuses, loc \in {"abs", "rel", "bad"},
          b \in SealBodies :
           DoSealStatus(first, second, k, final, loc, b)
    \/ Exit

SpecQ == InitT /\ [][NextQ]_vars

\* the request for the seal status was answered 200 with the body b
Answered200 == res.reqerr = NoErr /\ res.status = 200

\* C29: Sealed and SealThreshold always return a value, and a member is
\* reported unsealed only when the request for its seal status was answered
\* 200 with sealed = false; a failed request or another status yields
\* neither "unsealed" nor a fault.
C29_SealStatusTotal ==
    Done("sealstatus") =>
        /\ res.err = NoErr
        /\ Len(res.values) = 2
        /\ \A i \in 1..Len(res.values) :
               res.values[i] = "unsealed" =>
                   (Answered200 /\ cmd.body.json /\ ~cmd.body.sealed)

\* what holds: with a 200 and a JSON body Sealed returns the body's sealed,
\* and the second call answers from v.seal without a request
C29_SealedWhenAnswered ==
    (Done("sealstatus") /\ Answered200 /\ cmd.body.json) =>
        /\ res.err = NoErr
        /\ Len(res.sent) = cmd.plan.k + 1
        /\ \A i \in 1..2 :
               (<<cmd.first, cmd.second>>[i] = "Sealed") =>
                   res.values[i] = IF cmd.body.sealed THEN "sealed" ELSE "unsealed"

\* what fails when the request itself fails: the process faults
C29_NoFault ==
    Done("sealstatus") => res.err = NoErr

\* what fails when the member answers another status than 200: "unsealed"
C29_UnsealedOnly200 ==
    (Done("sealstatus") /\ res.err = NoErr /\ ~Answered200) =>
        \A i \in 1..Len(res.values) : res.values[i] # "unsealed"

----------------------------------------------------------------------------
(* The choice of the release to update to: findLatestRelease.               *)

MaxReleases == 3

ErrNoRelease == "Unable to find latest release"

\* the tag names of the releases
TagNames == {"0.0.0", "0.1.0", "1.0.0", "v2.0.0", "nightly"}

\* semver.Make: the version of a tag MAJOR.MINOR.PATCH; any other tag, one
\* with a leading "v" included, is an error and yields the zero Version
Make(tag) ==
    CASE tag = "0.0.0" -> [v |-> <<0, 0, 0>>, err |-> FALSE]
      [] tag = "0.1.0" -> [v |-> <<0, 1, 0>>, err |-> FALSE]
      [] tag = "1.0.0" -> [v |-> <<1, 0, 0>>, err |-> FALSE]
      [] OTHER         -> [v |-> <<0, 0, 0>>, err |-> TRUE]

\* Version.GT: major, then minor, then patch
GT(a, b) ==
    \/ a[1] > b[1]
    \/ a[1] = b[1] /\ a[2] > b[2]
    \/ a[1] = b[1] /\ a[2] = b[2] /\ a[3] > b[3]

\* the loop of findLatestRelease from release i on; latest is the index of
\* the release held so far, 0 for nil
RECURSIVE latestFrom(_, _, _)
latestFrom(releases, i, latest) ==
    IF i > Len(releases) THEN latest
    ELSE IF latest = 0
    THEN latestFrom(releases, i + 1, IF Make(releases[i]).err THEN i ELSE 0)
    ELSE IF ~Make(releases[i]).err
            /\ GT(Make(releases[i]).v, Make(releases[latest]).v)
    THEN latestFrom(releases, i + 1, i)
    ELSE latestFrom(releases, i + 1, latest)

\* findLatestRelease: the release held after the loop, or the error
findLatestRelease(releases) ==
    LET after(latest) ==
            IF latest = 0 THEN [latest |-> 0, err |-> ErrNoRelease]
            ELSE [latest |-> latest, err |-> NoErr]
    IN  after(latestFrom(releases, 1, 0))

\* the lists of releases GitHub may answer with
ReleaseLists == UNION {[1..n -> TagNames] : n \in 0..MaxReleases}

DoFindLatest(releases) ==
    /\ CanRun
    /\ cmd' = [op |-> "findLatestRelease", releases |-> releases]
    /\ res' = findLatestRelease(releases)
    /\ phase' = "done"
    /\ steps' = steps + 1
    /\ UNCHANGED <<store, ghosts, env, dns, seal, members, unseal>>

NextR ==
    \/ \E releases \in ReleaseLists : DoFindLatest(releases)
    \/ Exit

SpecR == Init /\ [][NextR]_vars

\* the releases of the list whose tag is valid semver
Valid == {i \in 1..Len(cmd.releases) : ~Make(cmd.releases[i]).err}

\* C30: for a list with a tag that is valid semver, findLatestRelease
\* returns a release with a valid tag and the greatest version among the
\* valid ones; it fails only when no release has a valid tag.
C30_LatestIsGreatestValid ==
    Done("findLatestRelease") =>
        /\ Valid # {} =>
               /\ res.err = NoErr
               /\ res.latest \in Valid
               /\ \A i \in Valid :
                      ~GT(Make(cmd.releases[i]).v, Make(cmd.releases[res.latest]).v)
        /\ res.err # NoErr => Valid = {}

\* what holds: the function fails exactly when no tag is invalid, and the
\* release it returns is the first with an invalid tag or a valid one after it
C30_StartsAtFirstInvalid ==
    Done("findLatestRelease") =>
        /\ res.err # NoErr <=> Valid = 1..Len(cmd.releases)
        /\ res.err = NoErr =>
               /\ \E i \in 1..res.latest : i \notin Valid
               /\ \A i \in Valid :
                      (\E j \in 1..i : j \notin Valid) =>
                          ~GT(Make(cmd.releases[i]).v, Make(cmd.releases[res.latest]).v)

====
